---------------------------- MODULE Spec2Model ----------------------------
(***************************************************************************)
(* Model of the preview engine of web-code-dreamer.                        *)
(*                                                                         *)
(* Two preview controllers live in the repository:                         *)
(*   - PreviewFrame({html, css, js}) (src/unnamed/part_003): boots a       *)
(*     WebContainer on mount, mounts/installs/serves every bundle it is    *)
(*     given and falls back to an srcdoc iframe (useWebContainer = FALSE). *)
(*     Specification Spec.                                                 *)
(*   - CodeGenerator (src/src/components/CodeGenerator.tsx, second         *)
(*     component of the file) with PreviewFrame({isReady}, ref)            *)
(*     (src/unnamed/part_004): handleGenerate -> setupPreview, readiness   *)
(*     flag isPreviewReady.  Specification SpecCG.                         *)
(*                                                                         *)
(* Strings are sequences of tokens; a token is an atomic piece of text     *)
(* (a tag such as "<style>", a run of text such as "h1{}").  String        *)
(* operations (includes, replace, template literals) act on tokens.        *)
(***************************************************************************)
EXTENDS Integers, Sequences, FiniteSets, TLC

(***************************************************************************)
(* Bounds of the model.                                                    *)
(***************************************************************************)
\* invocations of updateWebContainerPreview followed in one session
MaxTasks == 3
\* invocations of handleGenerate followed in one session
MaxGenerations == 3
\* tokens of the html argument createFullHTML is applied to
MaxHtmlLen == 3
\* projects created by generateCode in one session
MaxProjects == 1
\* 'ai/generate-code' events sent for one conversationId
MaxRuns == 11
\* runs of generateCodeAgent that are between their first and last step
MaxInFlight == 2

(***************************************************************************)
(* Constants of the source.                                                *)
(***************************************************************************)
\* const maxAttempts = 30 of the poll loop of generateCode
maxAttempts == 30
\* 'Keep only last 10 interactions' of save-memory
HistoryLimit == 10

(***************************************************************************)
(* String helpers (JavaScript String.prototype.includes / replace).        *)
(***************************************************************************)
\* s.includes(t) for a one-token needle t
Includes(s, t) == \E i \in 1..Len(s) : s[i] = t

\* s.indexOf(t), 1-based; 0 when absent
IndexOf(s, t) ==
  IF Includes(s, t)
  THEN CHOOSE i \in 1..Len(s) : s[i] = t /\ \A j \in 1..(i - 1) : s[j] # t
  ELSE 0

RECURSIVE ExpandReplacement(_, _, _, _)
\* GetSubstitution of String.prototype.replace with a string pattern: in the
\* replacement text "$$" stands for "$", "$&" for the match, "$(backtick)"
\* (the token for '$' followed by a backtick) for the text before the match
\* and "$'" for the text after it.
ExpandReplacement(repl, matched, before, after) ==
  IF repl = <<>> THEN <<>>
  ELSE LET h == Head(repl)
           r == ExpandReplacement(Tail(repl), matched, before, after)
       IN  CASE h = "$$" -> <<"$">> \o r
             [] h = "$&" -> <<matched>> \o r
             [] h = "$(backtick)" -> before \o r
             [] h = "$'" -> after \o r
             [] OTHER    -> <<h>> \o r

\* s.replace(t, repl): the first occurrence of t only
Replace(s, t, repl) ==
  LET i == IndexOf(s, t)
  IN  IF i = 0 THEN s
      ELSE LET before == SubSeq(s, 1, i - 1)
               after  == SubSeq(s, i + 1, Len(s))
           IN  before \o ExpandReplacement(repl, t, before, after) \o after

(***************************************************************************)
(* Bundle Assembler: createFullHTML of PreviewFrame.                       *)
(***************************************************************************)
\* mutant of WrapFragment: the script block is put into the head
WrapFragmentScriptInHead(htmlContent, cssContent, jsContent) ==
  <<"<!DOCTYPE", "<html", "<head>", "<meta>", "<title>", "<style>", "\n">>
    \o cssContent
    \o <<"\n", "</style>", "<script>", "\n">>
    \o jsContent
    \o <<"\n", "</script>", "</head>", "<body>", "\n">>
    \o htmlContent
    \o <<"\n", "</body>", "</html>">>

\* the synthesized minimal document of the fragment branch
WrapFragment(htmlContent, cssContent, jsContent) ==
  <<"<!DOCTYPE", "<html", "<head>", "<meta>", "<title>", "<style>", "\n">>
    \o cssContent
    \o <<"\n", "</style>", "</head>", "<body>", "\n">>
    \o htmlContent
    \o <<"\n", "<script>", "\n">>
    \o jsContent
    \o <<"\n", "</script>", "</body>", "</html>">>

\* the style injection of the full-document branch
InjectStyle(htmlContent, cssContent, modifiedHTML) ==
  IF cssContent # <<>> /\ ~Includes(htmlContent, "<style>")
  THEN LET styleTag == <<"<style>">> \o cssContent \o <<"</style>">>
       IN  IF Includes(htmlContent, "</head>")
           THEN Replace(modifiedHTML, "</head>", styleTag \o <<"\n", "</head>">>)
           ELSE styleTag \o <<"\n">> \o modifiedHTML
  ELSE modifiedHTML

\* the script injection of the full-document branch
InjectScript(htmlContent, jsContent, modifiedHTML) ==
  IF jsContent # <<>> /\ ~Includes(htmlContent, "<script>")
  THEN LET scriptTag == <<"<script>">> \o jsContent \o <<"</script>">>
       IN  IF Includes(htmlContent, "</body>")
           THEN Replace(modifiedHTML, "</body>", scriptTag \o <<"\n", "</body>">>)
           ELSE modifiedHTML \o <<"\n">> \o scriptTag
  ELSE modifiedHTML

createFullHTML(htmlContent, cssContent, jsContent) ==
  IF Includes(htmlContent, "<!DOCTYPE") \/ Includes(htmlContent, "<html")
  THEN InjectScript(htmlContent, jsContent,
                    InjectStyle(htmlContent, cssContent, htmlContent))
  ELSE WrapFragment(htmlContent, cssContent, jsContent)

(***************************************************************************)
(* The arguments createFullHTML is applied to in specification SpecAsm.    *)
(***************************************************************************)
\* pieces of markup: the two markers createFullHTML looks for, a doctype in
\* lower case, the two end tags it injects before, style and script start
\* tags without and with attributes, and some other element
HtmlTokens == {"<!DOCTYPE", "<!doctype", "<html", "</head>", "</body>",
               "<style>", "<style id>", "<script>", "<script src>", "<p>"}

HtmlInputs == UNION {[1..n -> HtmlTokens] : n \in 0..MaxHtmlLen}

\* none, plain text, text with replacement patterns of String.replace
CssInputs == {<<>>, <<"h1{}">>, <<"a", "$&">>}

JsInputs == {<<>>, <<"f()">>, <<"$(backtick)", "$'", "$$">>}

AsmInputs == [html : HtmlInputs, css : CssInputs, js : JsInputs]

(***************************************************************************)
(* The bundles a session is fed.  Bundle 0 is "no bundle": the props of    *)
(* PreviewFrame are '' when no project is current or the project has no    *)
(* generated code.                                                         *)
(***************************************************************************)
NoBundle == [html |-> <<>>, css |-> <<>>, js |-> <<>>]

\* A: a fragment; B: a full document without style or script block
BundleA == [html |-> <<"<h1>", "Hi", "</h1>">>,
            css  |-> <<"h1{color:red}">>,
            js   |-> <<"console.log(1)">>]

BundleB == [html |-> <<"<!DOCTYPE", "<html", "<head>", "</head>",
                       "<body>", "<p>", "</body>", "</html>">>,
            css  |-> <<"p{margin:0}">>,
            js   |-> <<"alert(2)">>]

\* C: a project row whose generated_html is null or '' while its css and js
\* are set; the props are then html = '', css, js
BundleC == [html |-> <<>>,
            css  |-> <<"p{margin:0}">>,
            js   |-> <<"alert(2)">>]

Bundles == <<BundleA, BundleB>>

BundleIds == 1..Len(Bundles)

\* the id of bundle C, fed to the session in specification SpecMalformed
MalformedBundleId == Len(Bundles) + 1

BundleOf(b) ==
  IF b = 0 THEN NoBundle
  ELSE IF b = MalformedBundleId THEN BundleC
  ELSE Bundles[b]

\* createFullHTML(html, css, js) of every bundle, 0 (no code yet) included
AssembledDocs ==
  [b \in {0} \cup BundleIds \cup {MalformedBundleId} |->
     createFullHTML(BundleOf(b).html, BundleOf(b).css, BundleOf(b).js)]

\* createFullHTML(html, css, js) of the bundle with id b
Assemble(b) == AssembledDocs[b]

\* the mock GeneratedCode of generateCodeFromPrompt (1) and of
\* generateCodeFromImage (2)
PromptCode == [html |-> <<"<!DOCTYPE", "<html", "<head>", "<meta>", "<title>",
                          "<script src>", "</script>",
                          "<style id=\"generated-styles\"></style>", "</head>",
                          "<body>", "<div id=\"root\">", "</div>",
                          "<script type src>", "</script>", "</body>", "</html>">>,
               css  |-> <<"/* Generated CSS */">>,
               js   |-> <<"function App() {}">>]

ImageCode == [html |-> <<"<!DOCTYPE", "<html", "<head>", "<meta>", "<title>",
                         "<script src>", "</script>", "</head>",
                         "<body>", "<div id=\"root\">", "</div>",
                         "<script type src>", "</script>", "</body>", "</html>">>,
              css  |-> <<"/* Generated from uploaded image */">>,
              js   |-> <<"function App() {}">>]

Codes == <<PromptCode, ImageCode>>

\* the index.html setupPreview writes for code c
IndexHtmlOf(c) ==
  Replace(Codes[c].html, "<style id=\"generated-styles\"></style>",
          <<"<style>">> \o Codes[c].css \o <<"</style>">>)

\* the url the server-ready event carries
PreviewUrl == "http://localhost:3000"

(***************************************************************************)
(* State.                                                                  *)
(***************************************************************************)
VARIABLES
  \* ---- PreviewFrame({html, css, js}), src/unnamed/part_003 ----
  webcontainerInstance, \* useState<WebContainer | null>: TRUE when non-null
  url,                  \* useState<string>('')
  isLoading,            \* useState(false)
  useWebContainer,      \* useState(true): TRUE = Sandboxed, FALSE = Fallback
  bundle,               \* the props html/css/js, as a bundle id (0: all '')
  pfBoot,               \* WebContainer.boot(): "idle", "pending", "resolved", "rejected"
  tasks,                \* the invocations of updateWebContainerPreview, in call order
  fsIndex,              \* contents of index.html in the session's file tree
  lastOp,               \* history: what the last step was, "refresh",
                        \* "open" (window.open was called), "ready" (the
                        \* server-ready callback ran), else "none"
  \* ---- CodeGenerator (second component) + PreviewFrame({isReady}) ----
  cgInstance,           \* webcontainerInstance.current # null
  isGenerating,         \* useState(false)
  isPreviewReady,       \* useState(false)
  generatedCode,        \* useState<GeneratedCode | null>: a code id, 0 for null
  iframeSrc,            \* previewRef.current.src of the mounted iframe
  cgPc,                 \* where the running handleGenerate is suspended
  cgCode,               \* the local 'code' of the running handleGenerate
  cgFs,                 \* contents of index.html in the session's file tree
  cgListeners,          \* number of 'server-ready' listeners registered
  cgServers,            \* generations whose server runs and has not announced itself
  cgHist,               \* history: boots: calls of WebContainer.boot; gens: calls of
                        \* handleGenerate; last: what the latest one met ("none",
                        \* "running", "bootFailed", "execFailed", "served", "ready");
                        \* exit: the last install exit code (-1: none)
  \* ---- createFullHTML applied to drawn inputs ----
  asmIn,                \* the arguments [html, css, js]
  asmOut,               \* createFullHTML(html, css, js)
  asmOut2,              \* createFullHTML(asmOut, css, js)
  asmPc,                \* "idle", "input", "assembled", "reassembled"
  \* ---- the view that hosts PreviewFrame({html, css, js}) ----
  mounted,              \* FALSE once React has unmounted the component
  \* ---- the projects table and the ai-code-generator edge function ----
  db,                   \* project id -> row [exists, status, html, css, js]
  edge,                 \* project id -> the handler invoked for it: pc ("idle",
                        \* "start", "update", "provider", "store", "ok",
                        \* "failed"), bodyUsed (req.bodyUsed), resp (the
                        \* provider's response), parsed (parsedCode)
  \* ---- CodeGenerator (first component of CodeGenerator.tsx) ----
  isGeneratingV1,       \* useState(false): isGenerating
  currentProject,       \* useState<Project | null>: a row as fetched, id 0: null
  projects,             \* useState<Project[]>: project id -> the row in the list
  gen,                  \* the running generateCode: pc ("idle", "insert",
                        \* "invoke", "select", "selected", "sleep"), id of its
                        \* project, attempts, resp (the row the select read)
  dels,                 \* project id -> the deleteProject call in flight
  loadPending,          \* a loadProjects call is in flight
  genHist,              \* history: made (projects created), lastId / last
                        \* (project and outcome of the latest generateCode),
                        \* toast, polls (selects issued by it), waits (polls
                        \* that saw 'pending' or 'generating'), seen (status
                        \* of its latest poll), deleted (ids whose deletion
                        \* deleteProject has finished)
  \* ---- ModelSelector under its two parents ----
  selectedProvider,     \* useState<AIProvider>('openai'), AIProvider variant
  selectedModel,        \* useState('gpt-4-turbo')
  selectedProviderV1,   \* useState('gemini'), variant with handleProviderChange
  selectedModelV1,      \* useState('gemini-1.5-flash')
  selMade,              \* history: the variants a selection was made through
  \* ---- generateCodeAgent and the conversation memory ----
  stored,               \* localStorage 'conversation:<id>': its history, a
                        \* sequence of interactions (the number of their run)
  runs,                 \* run -> pc ("none", "load", "steps", "done") and
                        \* memory.history as load-memory returned it
  saved                 \* history: the interactions in the order saved

pfVars == <<webcontainerInstance, url, isLoading, useWebContainer, bundle,
            pfBoot, tasks, fsIndex, lastOp>>

cgVars == <<cgInstance, isGenerating, isPreviewReady, generatedCode, iframeSrc,
            cgPc, cgCode, cgFs, cgListeners, cgServers, cgHist>>

asmVars == <<asmIn, asmOut, asmOut2, asmPc>>

\* the state of the other components of the repository
dbVars == <<db, edge>>

clVars == <<isGeneratingV1, currentProject, projects, gen, dels, loadPending,
            genHist>>

selVars == <<selectedProvider, selectedModel, selectedProviderV1,
             selectedModelV1, selMade>>

memVars == <<stored, runs, saved>>

restVars == <<mounted, dbVars, clVars, selVars, memVars>>

\* everything outside the projects table, the edge function and CodeGenerator
oldVars == <<pfVars, cgVars, asmVars, mounted, selVars, memVars>>

vars == <<pfVars, cgVars, asmVars, restVars>>

(***************************************************************************)
(* PreviewFrame({html, css, js}): the render.                              *)
(***************************************************************************)
\* const combinedHTML = createFullHTML(html, css, js)
combinedHTML == Assemble(bundle)

\* mutant of RenderTarget: the iframe follows url alone, whatever the mode
RenderTargetUrlOnly ==
  IF url # ""
  THEN [src |-> url, srcDoc |-> <<>>]
  ELSE [src |-> "", srcDoc |-> combinedHTML]

\* the iframe the component renders: src={url} or srcDoc={combinedHTML}
RenderTarget ==
  IF useWebContainer /\ url # ""
  THEN [src |-> url, srcDoc |-> <<>>]
  ELSE [src |-> "", srcDoc |-> combinedHTML]

\* what the user sees in the iframe: the served index.html or the srcdoc
VisibleContent ==
  IF RenderTarget.src # "" THEN fsIndex ELSE RenderTarget.srcDoc

(***************************************************************************)
(* PreviewFrame({html, css, js}): handlers.                                *)
(***************************************************************************)
\* a task: the bundle its closure captured, the await it is suspended at
\* ("mount", "spawnInstall", "installExit"; "done", "failed" when it returned)
\* and the fate of its un-awaited spawn('npm', ['start'])
\* ("none", "pending", "running", "ready", "rejected")
NewTask(b) == [bundle |-> b, pc |-> "mount", start |-> "none"]

\* updateFallbackPreview
updateFallbackPreview == isLoading' = FALSE

\* updateWebContainerPreview up to its first await, called with the state the
\* calling render sees (wc: webcontainerInstance) and the props b
updateWebContainerPreview(wc, b) ==
  IF ~wc \/ BundleOf(b).html = <<>>
  THEN UNCHANGED <<isLoading, tasks>>
  ELSE /\ isLoading' = TRUE
       /\ tasks' = Append(tasks, NewTask(b))

\* mutant of BundleEffect: the effect does not wait for the instance
BundleEffectAssumesInstance(wc, b) ==
  IF BundleOf(b).html # <<>>
  THEN IF useWebContainer
       THEN updateWebContainerPreview(TRUE, b)
       ELSE updateFallbackPreview /\ UNCHANGED tasks
  ELSE UNCHANGED <<isLoading, tasks>>

\* mutant of BundleEffect: the effect looks at the instance, not at the mode
BundleEffectIgnoresMode(wc, b) ==
  IF BundleOf(b).html # <<>>
  THEN IF wc
       THEN updateWebContainerPreview(wc, b)
       ELSE updateFallbackPreview /\ UNCHANGED tasks
  ELSE UNCHANGED <<isLoading, tasks>>

\* the effect on [html, css, js, webcontainerInstance], run after a render
\* with webcontainerInstance = wc and props b
BundleEffect(wc, b) ==
  IF BundleOf(b).html # <<>>
  THEN IF wc /\ useWebContainer
       THEN updateWebContainerPreview(wc, b)
       ELSE updateFallbackPreview /\ UNCHANGED tasks
  ELSE UNCHANGED <<isLoading, tasks>>

\* room for one more task within the bound
TaskRoom == Len(tasks) < MaxTasks

\* the effect on [useWebContainer] at mount: initWebContainer up to its await
InitEffect ==
  /\ mounted
  /\ pfBoot = "idle"
  /\ useWebContainer
  /\ isLoading' = TRUE
  /\ pfBoot' = "pending"
  /\ UNCHANGED <<webcontainerInstance, url, useWebContainer, bundle, tasks,
                 fsIndex, cgVars, asmVars, restVars>>
  /\ lastOp' = "none"

\* WebContainer.boot() resolves: setWebcontainerInstance, finally
\* setIsLoading(false); then the bundle effect runs (its dependency changed)
BootResolve ==
  /\ pfBoot = "pending"
  /\ pfBoot' = "resolved"
  /\ webcontainerInstance' = TRUE
  /\ IF BundleOf(bundle).html # <<>> /\ useWebContainer
     THEN updateWebContainerPreview(TRUE, bundle)
     ELSE isLoading' = FALSE /\ UNCHANGED tasks
  /\ UNCHANGED <<url, useWebContainer, bundle, fsIndex, cgVars, asmVars, restVars>>
  /\ lastOp' = "none"

\* WebContainer.boot() rejects: catch, finally
BootReject ==
  /\ pfBoot = "pending"
  /\ pfBoot' = "rejected"
  /\ useWebContainer' = FALSE
  /\ isLoading' = FALSE
  /\ UNCHANGED <<webcontainerInstance, url, bundle, tasks, fsIndex, cgVars, asmVars, restVars>>
  /\ lastOp' = "none"

\* the parent renders PreviewFrame with other props; the bundle effect runs
SetBundle(b) ==
  /\ mounted
  /\ pfBoot # "idle"
  /\ b # bundle
  /\ (webcontainerInstance /\ useWebContainer /\ BundleOf(b).html # <<>>)
       => TaskRoom
  /\ bundle' = b
  /\ BundleEffect(webcontainerInstance, b)
  /\ UNCHANGED <<webcontainerInstance, url, useWebContainer, pfBoot, fsIndex,
                 cgVars, asmVars, restVars>>
  /\ lastOp' = "none"

\* mutant of refreshPreview: it restarts the session whenever there is one
refreshPreviewIgnoresMode ==
  /\ mounted
  /\ pfBoot # "idle"
  /\ ~isLoading
  /\ IF webcontainerInstance
     THEN updateWebContainerPreview(webcontainerInstance, bundle)
     ELSE UNCHANGED <<isLoading, tasks>>
  /\ UNCHANGED <<webcontainerInstance, url, useWebContainer, bundle, pfBoot,
                 fsIndex, cgVars, asmVars, restVars>>
  /\ lastOp' = "refresh"

\* refreshPreview, behind a button that is disabled while isLoading
refreshPreview ==
  /\ mounted
  /\ pfBoot # "idle"
  /\ ~isLoading
  /\ IF useWebContainer /\ webcontainerInstance
     THEN /\ BundleOf(bundle).html # <<>> => TaskRoom
          /\ updateWebContainerPreview(webcontainerInstance, bundle)
     ELSE UNCHANGED <<isLoading, tasks>>
  /\ UNCHANGED <<webcontainerInstance, url, useWebContainer, bundle, pfBoot,
                 fsIndex, cgVars, asmVars, restVars>>
  /\ lastOp' = "refresh"

\* openInNewTab, behind a button that is rendered only when url is set
openInNewTab ==
  /\ mounted
  /\ pfBoot # "idle"
  /\ url # ""
  /\ lastOp' = "open"
  /\ UNCHANGED <<webcontainerInstance, url, isLoading, useWebContainer, bundle,
                 pfBoot, tasks, fsIndex, cgVars, asmVars, restVars>>

\* task i with some fields changed
SetTask(i, pc, start) ==
  tasks' = [tasks EXCEPT ![i] = [bundle |-> @.bundle, pc |-> pc, start |-> start]]

\* mutant of CatchExecError: the catch block forgets setUseWebContainer(false)
CatchWithoutDemotion(i) ==
  /\ SetTask(i, "failed", tasks[i].start)
  /\ updateFallbackPreview
  /\ UNCHANGED <<webcontainerInstance, url, useWebContainer, bundle, pfBoot,
                 fsIndex, cgVars, asmVars, restVars>>
  /\ lastOp' = "none"

\* the catch block of updateWebContainerPreview, taken by task i
CatchExecError(i) ==
  /\ SetTask(i, "failed", tasks[i].start)
  /\ useWebContainer' = FALSE
  /\ updateFallbackPreview
  /\ UNCHANGED <<webcontainerInstance, url, bundle, pfBoot, fsIndex, cgVars, asmVars, restVars>>
  /\ lastOp' = "none"

\* await webcontainerInstance.mount(files) resolves: the tree holds the
\* index.html the task assembled from its props; spawn('npm', ['install'])
MountResolve(i) ==
  /\ i \in 1..Len(tasks)
  /\ tasks[i].pc = "mount"
  /\ fsIndex' = Assemble(tasks[i].bundle)
  /\ SetTask(i, "spawnInstall", tasks[i].start)
  /\ UNCHANGED <<webcontainerInstance, url, isLoading, useWebContainer, bundle,
                 pfBoot, cgVars, asmVars, restVars>>
  /\ lastOp' = "none"

\* await webcontainerInstance.mount(files) rejects
MountReject(i) ==
  /\ i \in 1..Len(tasks)
  /\ tasks[i].pc = "mount"
  /\ CatchExecError(i)

\* await webcontainerInstance.spawn('npm', ['install']) resolves
SpawnInstallResolve(i) ==
  /\ i \in 1..Len(tasks)
  /\ tasks[i].pc = "spawnInstall"
  /\ SetTask(i, "installExit", tasks[i].start)
  /\ UNCHANGED <<webcontainerInstance, url, isLoading, useWebContainer, bundle,
                 pfBoot, fsIndex, cgVars, asmVars, restVars>>
  /\ lastOp' = "none"

\* await webcontainerInstance.spawn('npm', ['install']) rejects
SpawnInstallReject(i) ==
  /\ i \in 1..Len(tasks)
  /\ tasks[i].pc = "spawnInstall"
  /\ CatchExecError(i)

\* await installProcess.exit gives 0: spawn('npm', ['start']) is called and
\* not awaited, the 'server-ready' listener is registered, the task returns
InstallExitZero(i) ==
  /\ i \in 1..Len(tasks)
  /\ tasks[i].pc = "installExit"
  /\ SetTask(i, "done", "pending")
  /\ UNCHANGED <<webcontainerInstance, url, isLoading, useWebContainer, bundle,
                 pfBoot, fsIndex, cgVars, asmVars, restVars>>
  /\ lastOp' = "none"

\* await installProcess.exit gives a non-zero code: throw new Error(...)
InstallExitNonZero(i) ==
  /\ i \in 1..Len(tasks)
  /\ tasks[i].pc = "installExit"
  /\ CatchExecError(i)

\* the promise of the un-awaited spawn('npm', ['start']) resolves: the
\* server process runs
StartSpawnResolve(i) ==
  /\ i \in 1..Len(tasks)
  /\ tasks[i].start = "pending"
  /\ SetTask(i, tasks[i].pc, "running")
  /\ UNCHANGED <<webcontainerInstance, url, isLoading, useWebContainer, bundle,
                 pfBoot, fsIndex, cgVars, asmVars, restVars>>
  /\ lastOp' = "none"

\* the promise of the un-awaited spawn('npm', ['start']) rejects: nothing
\* awaits or catches it
StartSpawnReject(i) ==
  /\ i \in 1..Len(tasks)
  /\ tasks[i].start = "pending"
  /\ SetTask(i, tasks[i].pc, "rejected")
  /\ UNCHANGED <<webcontainerInstance, url, isLoading, useWebContainer, bundle,
                 pfBoot, fsIndex, cgVars, asmVars, restVars>>
  /\ lastOp' = "none"

\* mutant of OnServerReady: a server that comes up switches the sandbox back on
OnServerReadyRestoresMode ==
  /\ url' = PreviewUrl
  /\ isLoading' = FALSE
  /\ useWebContainer' = TRUE

\* the callback given to on('server-ready', ...)
OnServerReady ==
  /\ url' = PreviewUrl
  /\ isLoading' = FALSE
  /\ UNCHANGED useWebContainer

\* the server task i started announces itself: every registered listener
\* runs (they are all the same callback)
ServerReady(i) ==
  /\ i \in 1..Len(tasks)
  /\ tasks[i].start = "running"
  /\ SetTask(i, tasks[i].pc, "ready")
  /\ OnServerReady
  /\ UNCHANGED <<webcontainerInstance, bundle, pfBoot, fsIndex, cgVars, asmVars, restVars>>
  /\ lastOp' = "ready"

(***************************************************************************)
(* CodeGenerator (second component of CodeGenerator.tsx) and               *)
(* PreviewFrame({isReady}, ref).                                           *)
(***************************************************************************)
\* previewRef.current # null: CodeGenerator renders PreviewFrame only when
\* generatedCode is set, and PreviewFrame renders the iframe (the element
\* the ref is attached to) only when isReady
previewRefCurrent == generatedCode # 0 /\ isPreviewReady

\* what the preview pane shows: the iframe with its src, or the
\* "Preview Loading" placeholder
PreviewPane ==
  IF previewRefCurrent
  THEN [shows |-> "iframe", src |-> iframeSrc]
  ELSE [shows |-> "placeholder", src |-> ""]

Hist(boots, gens, last, exit) ==
  [boots |-> boots, gens |-> gens, last |-> last, exit |-> exit]

\* handleGenerate up to its first await (the button is disabled while
\* isGenerating or when there is neither prompt nor image); c: which mock
\* generator the active tab selects
handleGenerate(c) ==
  /\ ~isGenerating
  /\ cgPc = "idle"
  /\ cgHist.gens < MaxGenerations
  /\ isGenerating' = TRUE
  /\ isPreviewReady' = FALSE
  /\ iframeSrc' = ""
  /\ cgPc' = "generate"
  /\ cgCode' = c
  /\ cgHist' = Hist(cgHist.boots, cgHist.gens + 1, "running", -1)
  /\ UNCHANGED <<cgInstance, generatedCode, cgFs, cgListeners, cgServers, pfVars, asmVars, restVars>>

\* initWebContainer as setupPreview calls it: boots only when
\* webcontainerInstance.current is null
initWebContainer ==
  IF ~cgInstance
  THEN /\ cgPc' = "boot"
       /\ cgHist' = Hist(cgHist.boots + 1, cgHist.gens, cgHist.last, cgHist.exit)
  ELSE /\ cgPc' = "mount"
       /\ UNCHANGED cgHist

\* the mock generator resolves: setGeneratedCode(code); setupPreview(code)
\* runs to its first pending await
GenerateResolve ==
  /\ cgPc = "generate"
  /\ generatedCode' = cgCode
  /\ initWebContainer
  /\ UNCHANGED <<cgInstance, isGenerating, isPreviewReady, iframeSrc, cgCode,
                 cgFs, cgListeners, cgServers, pfVars, asmVars, restVars>>

\* setupPreview returns (normally or through its catch); handleGenerate
\* toasts and its finally runs
FinishGenerate(last) ==
  /\ cgPc' = "idle"
  /\ isGenerating' = FALSE
  /\ cgHist' = Hist(cgHist.boots, cgHist.gens, last, cgHist.exit)

\* WebContainer.boot() resolves in initWebContainer; mount(files) is called
CGBootResolve ==
  /\ cgPc = "boot"
  /\ cgInstance' = TRUE
  /\ cgPc' = "mount"
  /\ UNCHANGED <<isGenerating, isPreviewReady, generatedCode, iframeSrc, cgCode,
                 cgFs, cgListeners, cgServers, cgHist, pfVars, asmVars, restVars>>

\* WebContainer.boot() rejects: initWebContainer returns null and
\* setupPreview returns at once
CGBootReject ==
  /\ cgPc = "boot"
  /\ FinishGenerate("bootFailed")
  /\ UNCHANGED <<cgInstance, isPreviewReady, generatedCode, iframeSrc, cgCode,
                 cgFs, cgListeners, cgServers, pfVars, asmVars, restVars>>

\* await webcontainer.mount(files) resolves; spawn('npm', ['install'])
CGMountResolve ==
  /\ cgPc = "mount"
  /\ cgFs' = IndexHtmlOf(cgCode)
  /\ cgPc' = "spawnInstall"
  /\ UNCHANGED <<cgInstance, isGenerating, isPreviewReady, generatedCode,
                 iframeSrc, cgCode, cgListeners, cgServers, cgHist, pfVars, asmVars, restVars>>

\* an awaited sandbox call of setupPreview rejects: its catch block
CGExecReject ==
  /\ cgPc \in {"mount", "spawnInstall", "spawnStart"}
  /\ FinishGenerate("execFailed")
  /\ UNCHANGED <<cgInstance, isPreviewReady, generatedCode, iframeSrc, cgCode,
                 cgFs, cgListeners, cgServers, pfVars, asmVars, restVars>>

\* await webcontainer.spawn('npm', ['install']) resolves
CGSpawnInstallResolve ==
  /\ cgPc = "spawnInstall"
  /\ cgPc' = "installExit"
  /\ UNCHANGED <<cgInstance, isGenerating, isPreviewReady, generatedCode,
                 iframeSrc, cgCode, cgFs, cgListeners, cgServers, cgHist, pfVars, asmVars, restVars>>

\* await installProcess.exit gives code (not looked at);
\* spawn('npm', ['start']) is called and awaited
CGInstallExit(code) ==
  /\ cgPc = "installExit"
  /\ cgPc' = "spawnStart"
  /\ cgHist' = Hist(cgHist.boots, cgHist.gens, cgHist.last, code)
  /\ UNCHANGED <<cgInstance, isGenerating, isPreviewReady, generatedCode,
                 iframeSrc, cgCode, cgFs, cgListeners, cgServers, pfVars, asmVars, restVars>>

\* await webcontainer.spawn('npm', ['start']) resolves: the listener is
\* registered and setupPreview returns
CGSpawnStartResolve ==
  /\ cgPc = "spawnStart"
  /\ cgListeners' = cgListeners + 1
  /\ cgServers' = cgServers \cup {cgHist.gens}
  /\ FinishGenerate("served")
  /\ UNCHANGED <<cgInstance, isPreviewReady, generatedCode, iframeSrc, cgCode,
                 cgFs, pfVars, asmVars, restVars>>

\* the callback given to on('server-ready', ...)
CGOnServerReady ==
  IF previewRefCurrent
  THEN iframeSrc' = PreviewUrl /\ isPreviewReady' = TRUE
  ELSE UNCHANGED <<iframeSrc, isPreviewReady>>

\* the server generation g started announces itself; the listeners run
CGServerReady(g) ==
  /\ g \in cgServers
  /\ cgListeners > 0
  /\ cgServers' = cgServers \ {g}
  /\ CGOnServerReady
  /\ cgHist' = Hist(cgHist.boots, cgHist.gens,
                    IF g = cgHist.gens /\ cgHist.last = "served"
                    THEN "ready" ELSE cgHist.last,
                    cgHist.exit)
  /\ UNCHANGED <<cgInstance, isGenerating, generatedCode, cgPc, cgCode, cgFs,
                 cgListeners, pfVars, asmVars, restVars>>

(***************************************************************************)
(* Specification of PreviewFrame({html, css, js}).                         *)
(***************************************************************************)
InitPF ==
  /\ webcontainerInstance = FALSE
  /\ url = ""
  /\ isLoading = FALSE
  /\ useWebContainer = TRUE
  /\ bundle = 0
  /\ pfBoot = "idle"
  /\ tasks = <<>>
  /\ fsIndex = <<>>
  /\ lastOp = "none"

InitCG ==
  /\ cgInstance = FALSE
  /\ isGenerating = FALSE
  /\ isPreviewReady = FALSE
  /\ generatedCode = 0
  /\ iframeSrc = ""
  /\ cgPc = "idle"
  /\ cgCode = 0
  /\ cgFs = <<>>
  /\ cgListeners = 0
  /\ cgServers = {}
  /\ cgHist = [boots |-> 0, gens |-> 0, last |-> "none", exit |-> -1]

\* no assembly is running
InitAsmIdle ==
  /\ asmIn = NoBundle
  /\ asmOut = <<>>
  /\ asmOut2 = <<>>
  /\ asmPc = "idle"

(***************************************************************************)
(* The projects table and the ai-code-generator edge function.             *)
(***************************************************************************)
ProjectIds == 1..MaxProjects

Statuses == {"pending", "generating", "completed", "error"}

\* the value of a property that is absent, and of a regex that did not match
Undefined == "undefined"

NoRow == [exists |-> FALSE, status |-> "none", html |-> "", css |-> "", js |-> ""]

PendingRow == [exists |-> TRUE, status |-> "pending", html |-> "", css |-> "", js |-> ""]

NoCode == [html |-> "", css |-> "", js |-> ""]

\* what a provider can answer: text that JSON.parse accepts or not (valid),
\* the html / css / js members of the parsed object, and what the three
\* markdown code-block patterns capture from the raw text
JsonValues == {Undefined, "", "json"}

MarkdownCaptures == {Undefined, "", "md"}

Responses ==
  [valid: BOOLEAN, html: JsonValues, css: JsonValues, js: JsonValues,
   mdHtml: MarkdownCaptures, mdCss: MarkdownCaptures, mdJs: MarkdownCaptures]

NoResponse ==
  [valid |-> FALSE, html |-> Undefined, css |-> Undefined, js |-> Undefined,
   mdHtml |-> Undefined, mdCss |-> Undefined, mdJs |-> Undefined]

\* the responses the client-side specifications draw from
SampleResponses ==
  {r \in Responses : /\ r.valid
                     /\ r.html = "json" /\ r.css = "json" /\ r.js = "json"
                     /\ r.mdHtml = Undefined /\ r.mdCss = Undefined /\ r.mdJs = Undefined}

\* JavaScript truthiness of a string or undefined
Truthy(v) == v # Undefined /\ v # ""

\* generateDynamicHTML / generateDynamicCSS / generateDynamicJS: every branch
\* returns a non-empty template
generateDynamicHTML == "dynamic html"

generateDynamicCSS == "dynamic css"

generateDynamicJS == "dynamic js"

\* the parse of the older handler: JSON.parse without the check of the fields
ParseResponseUnvalidated(resp) ==
  IF resp.valid
    THEN [html |-> resp.html, css |-> resp.css, js |-> resp.js]
    ELSE [html |-> IF Truthy(resp.mdHtml) THEN resp.mdHtml ELSE generateDynamicHTML,
          css |-> IF Truthy(resp.mdCss) THEN resp.mdCss ELSE generateDynamicCSS,
          js |-> IF Truthy(resp.mdJs) THEN resp.mdJs ELSE generateDynamicJS]

\* parsedCode: JSON.parse and the check of the three fields; on any throw
\* the markdown captures, each one falling back to its template
ParseResponse(resp) ==
  IF resp.valid /\ Truthy(resp.html) /\ Truthy(resp.css) /\ Truthy(resp.js)
    THEN [html |-> resp.html, css |-> resp.css, js |-> resp.js]
    ELSE [html |-> IF Truthy(resp.mdHtml) THEN resp.mdHtml ELSE generateDynamicHTML,
          css |-> IF Truthy(resp.mdCss) THEN resp.mdCss ELSE generateDynamicCSS,
          js |-> IF Truthy(resp.mdJs) THEN resp.mdJs ELSE generateDynamicJS]

IdleHandler == [pc |-> "idle", bodyUsed |-> FALSE, resp |-> NoResponse, parsed |-> NoCode]

\* the outer catch: the project id is read again only from a body that was
\* not consumed, and only then is the row set to 'error'; the response is 500
Catch(p, bodyUsed) ==
  LET projectId == IF bodyUsed THEN 0 ELSE p
  IN  /\ db' = IF projectId # 0 /\ db[p].exists
                 THEN [db EXCEPT ![p].status = "error"]
                 ELSE db
      /\ edge' = [edge EXCEPT ![p].pc = "failed", ![p].bodyUsed = bodyUsed]

\* await req.json() and the two environment variables are present
EdgeReadRequest(p) ==
  /\ edge[p].pc = "start"
  /\ edge' = [edge EXCEPT ![p].pc = "update", ![p].bodyUsed = TRUE]
  /\ UNCHANGED <<db, oldVars, clVars>>

\* await req.json(), then 'Supabase environment variables not found'
EdgeEnvMissing(p) ==
  /\ edge[p].pc = "start"
  /\ Catch(p, TRUE)
  /\ UNCHANGED <<oldVars, clVars>>

\* update({status: 'generating'}).eq('id', projectId) without error
EdgeUpdateGenerating(p) ==
  /\ edge[p].pc = "update"
  /\ db' = IF db[p].exists THEN [db EXCEPT ![p].status = "generating"] ELSE db
  /\ edge' = [edge EXCEPT ![p].pc = "provider"]
  /\ UNCHANGED <<oldVars, clVars>>

\* the update returns updateError: 'Failed to update project status'
EdgeUpdateError(p) ==
  /\ edge[p].pc = "update"
  /\ Catch(p, edge[p].bodyUsed)
  /\ UNCHANGED <<oldVars, clVars>>

\* the provider answers with a response out of R, which is parsed at once
EdgeProviderResolve(p, R) ==
  /\ edge[p].pc = "provider"
  /\ \E resp \in R :
       edge' = [edge EXCEPT ![p].pc = "store", ![p].resp = resp,
                            ![p].parsed = ParseResponse(resp)]
  /\ UNCHANGED <<db, oldVars, clVars>>

\* the provider call throws (no API key, API error) or the provider is
\* none of gemini, huggingface, nvidia
EdgeProviderThrow(p) ==
  /\ edge[p].pc = "provider"
  /\ Catch(p, edge[p].bodyUsed)
  /\ UNCHANGED <<oldVars, clVars>>

\* update({status: 'completed', generated_html, generated_css, generated_js})
EdgeStoreCompleted(p) ==
  /\ edge[p].pc = "store"
  /\ db' = IF db[p].exists
             THEN [db EXCEPT ![p].status = "completed",
                             ![p].html = edge[p].parsed.html,
                             ![p].css = edge[p].parsed.css,
                             ![p].js = edge[p].parsed.js]
             ELSE db
  /\ edge' = [edge EXCEPT ![p].pc = "ok"]
  /\ UNCHANGED <<oldVars, clVars>>

\* the same update fails; its error is not looked at and success is returned
EdgeStoreFails(p) ==
  /\ edge[p].pc = "store"
  /\ edge' = [edge EXCEPT ![p].pc = "ok"]
  /\ UNCHANGED <<db, oldVars, clVars>>

\* a writer of the status column other than this handler run, while the
\* client polls the project: the column admits the four statuses, and a row
\* that is not final can be moved
BackendSetsStatus(p, s) ==
  /\ gen.id = p
  /\ db[p].exists
  /\ db[p].status \in {"pending", "generating"}
  /\ s \in {"pending", "generating", "error"}
  /\ db[p].status # s
  /\ edge[p].pc \in {"ok", "failed"}
  /\ db' = [db EXCEPT ![p].status = s]
  /\ UNCHANGED <<edge, oldVars, clVars>>

InitDb ==
  /\ db = [p \in ProjectIds |-> NoRow]
  /\ edge = [p \in ProjectIds |-> IdleHandler]

(***************************************************************************)
(* CodeGenerator: generateCode, deleteProject, loadProjects and the        *)
(* project list.                                                           *)
(***************************************************************************)
NoProject == [id |-> 0, status |-> "none", html |-> "", css |-> "", js |-> ""]

\* the result of a select that returned fetchError
FetchError == [id |-> 0, status |-> "fetchError", html |-> "", css |-> "", js |-> ""]

\* the row of project p as a select returns it
Snapshot(p) ==
  [id |-> p, status |-> db[p].status, html |-> db[p].html, css |-> db[p].css,
   js |-> db[p].js]

IdleGen == [pc |-> "idle", id |-> 0, attempts |-> 0, resp |-> NoProject]

NoDelete == [pending |-> FALSE, ok |-> FALSE, cur |-> 0]

\* a throw inside generateCode: catch shows the failure toast, finally
\* clears isGenerating
Fail(outcome, h) ==
  /\ isGeneratingV1' = FALSE
  /\ gen' = IdleGen
  /\ genHist' = [h EXCEPT !.last = outcome, !.toast = "failed"]

\* the history after the select's result r has come back: the status it
\* showed, and one more poll that saw the project still in progress
Seen(r) ==
  [genHist EXCEPT !.seen = r.status,
                  !.waits = IF r.status \in {"pending", "generating"} THEN @ + 1 ELSE @]

\* the poll result handled as if 'error' were one more status to wait on
PollResultIgnoresError(r) ==
  IF r.status = "fetchError" THEN "fetchError"
  ELSE IF r.status \in {"completed", "error"} THEN "completed"
  ELSE "wait"

\* the poll result handled without the test for 'completed'
PollResultNeverCompletes(r) ==
  IF r.status = "fetchError" THEN "fetchError"
  ELSE IF r.status = "error" THEN "error"
  ELSE "wait"

\* what the loop body does with the result of its select
PollResult(r) ==
  IF r.status = "fetchError" THEN "fetchError"
  ELSE IF r.status = "completed" THEN "completed"
  ELSE IF r.status = "error" THEN "error"
  ELSE "wait"

\* the generate button (disabled while isGenerating) with a prompt
generateCode ==
  /\ ~isGeneratingV1
  /\ gen.pc = "idle"
  /\ genHist.made < MaxProjects
  /\ isGeneratingV1' = TRUE
  /\ gen' = [IdleGen EXCEPT !.pc = "insert"]
  /\ genHist' = [genHist EXCEPT !.last = "running", !.lastId = 0,
                                !.toast = "none", !.polls = 0, !.waits = 0,
                                !.seen = "none"]
  /\ UNCHANGED <<currentProject, projects, dels, loadPending, dbVars, oldVars>>

\* the insert returns the new row: setCurrentProject, setProjects, and the
\* edge function is invoked for it
InsertResolve ==
  /\ gen.pc = "insert"
  /\ LET p == genHist.made + 1
     IN  /\ db' = [db EXCEPT ![p] = PendingRow]
         /\ edge' = [edge EXCEPT ![p].pc = "start"]
         /\ currentProject' = [NoProject EXCEPT !.id = p, !.status = "pending"]
         /\ projects' = [projects EXCEPT ![p] = [NoProject EXCEPT !.id = p, !.status = "pending"]]
         /\ gen' = [gen EXCEPT !.pc = "invoke", !.id = p]
         /\ genHist' = [genHist EXCEPT !.made = p, !.lastId = p]
  /\ UNCHANGED <<isGeneratingV1, dels, loadPending, oldVars>>

\* the insert returns projectError
InsertReject ==
  /\ gen.pc = "insert"
  /\ Fail("insertError", genHist)
  /\ UNCHANGED <<currentProject, projects, dels, loadPending, dbVars, oldVars>>

\* functions.invoke returns without error: the loop issues its first select
InvokeResolve ==
  /\ gen.pc = "invoke"
  /\ edge[gen.id].pc = "ok"
  /\ gen' = [gen EXCEPT !.pc = "select"]
  /\ genHist' = [genHist EXCEPT !.polls = @ + 1]
  /\ UNCHANGED <<isGeneratingV1, currentProject, projects, dels, loadPending,
                 dbVars, oldVars>>

\* functions.invoke returns an error: the handler answered 500
InvokeReject ==
  /\ gen.pc = "invoke"
  /\ edge[gen.id].pc = "failed"
  /\ Fail("invokeError", genHist)
  /\ UNCHANGED <<currentProject, projects, dels, loadPending, dbVars, oldVars>>

\* the select of the loop is answered: the row as it is now, or fetchError
\* when .single() finds no row
PollRead ==
  /\ gen.pc = "select"
  /\ gen' = [gen EXCEPT !.pc = "selected",
                        !.resp = IF db[gen.id].exists THEN Snapshot(gen.id)
                                 ELSE FetchError]
  /\ UNCHANGED <<isGeneratingV1, currentProject, projects, dels, loadPending,
                 genHist, dbVars, oldVars>>

\* the select of the loop fails on the way
PollFails ==
  /\ gen.pc = "select"
  /\ gen' = [gen EXCEPT !.pc = "selected", !.resp = FetchError]
  /\ UNCHANGED <<isGeneratingV1, currentProject, projects, dels, loadPending,
                 genHist, dbVars, oldVars>>

\* the loop body after its await
PollReturn ==
  /\ gen.pc = "selected"
  /\ LET result == PollResult(gen.resp)
     IN  CASE result = "fetchError" ->
                /\ Fail("fetchError", Seen(gen.resp))
                /\ UNCHANGED <<currentProject, loadPending>>
           [] result = "completed" ->
                /\ currentProject' = gen.resp
                /\ loadPending' = TRUE
                /\ isGeneratingV1' = FALSE
                /\ gen' = IdleGen
                /\ genHist' = [Seen(gen.resp) EXCEPT !.last = "completed",
                                                     !.toast = "success"]
           [] result = "error" ->
                /\ Fail("error", Seen(gen.resp))
                /\ UNCHANGED <<currentProject, loadPending>>
           [] OTHER ->
                /\ gen' = [gen EXCEPT !.pc = "sleep", !.attempts = @ + 1,
                                      !.resp = NoProject]
                /\ genHist' = Seen(gen.resp)
                /\ UNCHANGED <<isGeneratingV1, currentProject, loadPending>>
  /\ UNCHANGED <<projects, dels, dbVars, oldVars>>

\* the one-second timer fires: the next iteration issues its select, or
\* the loop ends at maxAttempts and 'Code generation timed out' is thrown
TimerFires ==
  /\ gen.pc = "sleep"
  /\ IF gen.attempts < maxAttempts
       THEN /\ gen' = [gen EXCEPT !.pc = "select"]
            /\ genHist' = [genHist EXCEPT !.polls = @ + 1]
            /\ UNCHANGED isGeneratingV1
       ELSE Fail("timedOut", genHist)
  /\ UNCHANGED <<currentProject, projects, dels, loadPending, dbVars, oldVars>>

\* loadProjects is answered: setProjects(data)
LoadReturn ==
  /\ loadPending
  /\ loadPending' = FALSE
  /\ projects' = [p \in ProjectIds |-> IF db[p].exists THEN Snapshot(p) ELSE NoProject]
  /\ UNCHANGED <<isGeneratingV1, currentProject, gen, dels, genHist, dbVars, oldVars>>

\* a click on a project of the list: setCurrentProject(project)
selectProject(p) ==
  /\ projects[p].id # 0
  /\ currentProject # projects[p]
  /\ currentProject' = projects[p]
  /\ UNCHANGED <<isGeneratingV1, projects, gen, dels, loadPending, genHist,
                 dbVars, oldVars>>

\* the delete button of a listed project: the delete reaches the table; the
\* continuation keeps the currentProject of the render that was clicked
deleteProject(p) ==
  /\ projects[p].id # 0
  /\ ~dels[p].pending
  /\ \E ok \in BOOLEAN :
       /\ dels' = [dels EXCEPT ![p] = [pending |-> TRUE, ok |-> ok,
                                       cur |-> currentProject.id]]
       /\ db' = IF ok THEN [db EXCEPT ![p] = NoRow] ELSE db
  /\ UNCHANGED <<isGeneratingV1, currentProject, projects, gen, loadPending,
                 genHist, edge, oldVars>>

\* deleteProject after its await: the list is filtered, and currentProject
\* is cleared if it was the deleted project when the button was clicked
DeleteReturn(p) ==
  /\ dels[p].pending
  /\ dels' = [dels EXCEPT ![p] = NoDelete]
  /\ IF dels[p].ok
       THEN /\ projects' = [projects EXCEPT ![p] = NoProject]
            /\ currentProject' = IF dels[p].cur = p THEN NoProject ELSE currentProject
            /\ genHist' = [genHist EXCEPT !.deleted = @ \cup {p}]
       ELSE UNCHANGED <<projects, currentProject, genHist>>
  /\ UNCHANGED <<isGeneratingV1, gen, loadPending, dbVars, oldVars>>

InitClient ==
  /\ isGeneratingV1 = FALSE
  /\ currentProject = NoProject
  /\ projects = [p \in ProjectIds |-> NoProject]
  /\ gen = IdleGen
  /\ dels = [p \in ProjectIds |-> NoDelete]
  \* the mount effect has called loadProjects
  /\ loadPending = TRUE
  /\ genHist = [made |-> 0, lastId |-> 0, last |-> "none", toast |-> "none",
                polls |-> 0, waits |-> 0, seen |-> "none", deleted |-> {}]

(***************************************************************************)
(* ModelSelector: the AIProvider variant, given the models of               *)
(* lib/ai-providers.ts, and the variant with handleProviderChange and its   *)
(* own model table.                                                        *)
(***************************************************************************)
\* AI_MODELS of lib/ai-providers.ts, by provider; no entry for a provider
\* that is not a key
AI_MODELS(provider) ==
  CASE provider = "nvidia" -> <<"microsoft/phi-3-mini-4k-instruct",
                                "meta/llama-3.1-8b-instruct",
                                "mistralai/mistral-7b-instruct-v0.3">>
    [] provider = "anthropic" -> <<"claude-3-haiku-20240307">>
    [] provider = "google" -> <<"gemini-1.5-flash", "gemini-1.5-pro", "gemini-pro">>
    [] provider = "huggingface" -> <<"microsoft/DialoGPT-medium",
                                     "bigcode/starcoder2-3b",
                                     "HuggingFaceH4/zephyr-7b-beta">>
    [] OTHER -> <<>>

\* the keys of providerInfo: the providers the AIProvider variant offers
providerInfo == {"openai", "anthropic", "google", "huggingface"}

\* AI_MODELS local to the variant with handleProviderChange
AI_MODELS_V1(provider) ==
  CASE provider = "gemini" -> <<"gemini-1.5-flash", "gemini-1.5-pro", "gemini-pro">>
    [] provider = "huggingface" -> <<"microsoft/DialoGPT-large",
                                     "microsoft/CodeBERT-base",
                                     "codellama/CodeLlama-34b-Instruct-hf">>
    [] provider = "nvidia" -> <<"nvidia/nemotron-4-340b-instruct",
                                "meta/llama-3.1-405b-instruct",
                                "meta/llama-3.1-70b-instruct">>
    [] OTHER -> <<>>

\* the SelectItems of the provider Select of that variant
ProvidersV1 == {"gemini", "huggingface", "nvidia"}

Elems(seq) == {seq[i] : i \in 1..Len(seq)}

\* AIProvider variant: the provider Select calls onProviderChange, which is
\* the parent's setSelectedProvider
onProviderChange(provider) ==
  /\ provider \in providerInfo
  /\ provider # selectedProvider
  /\ selectedProvider' = provider
  /\ selMade' = selMade \cup {"AIProvider"}
  /\ UNCHANGED <<selectedModel, selectedProviderV1, selectedModelV1>>
  /\ UNCHANGED <<pfVars, cgVars, asmVars, mounted, dbVars, clVars, memVars>>

\* AIProvider variant: the model Select lists currentModels and calls
\* onModelChange, the parent's setSelectedModel
onModelChange(model) ==
  /\ model \in Elems(AI_MODELS(selectedProvider))
  /\ model # selectedModel
  /\ selectedModel' = model
  /\ selMade' = selMade \cup {"AIProvider"}
  /\ UNCHANGED <<selectedProvider, selectedProviderV1, selectedModelV1>>
  /\ UNCHANGED <<pfVars, cgVars, asmVars, mounted, dbVars, clVars, memVars>>

\* the other variant: onProviderChange, then onModelChange with the first
\* model of the new provider when there is one
handleProviderChange(provider) ==
  /\ provider \in ProvidersV1
  /\ provider # selectedProviderV1
  /\ selectedProviderV1' = provider
  /\ selectedModelV1' = IF AI_MODELS_V1(provider) # <<>>
                          THEN AI_MODELS_V1(provider)[1]
                          ELSE selectedModelV1
  /\ selMade' = selMade \cup {"handleProviderChange"}
  /\ UNCHANGED <<selectedProvider, selectedModel>>
  /\ UNCHANGED <<pfVars, cgVars, asmVars, mounted, dbVars, clVars, memVars>>

\* the other variant: the model Select lists availableModels
onModelChangeV1(model) ==
  /\ model \in Elems(AI_MODELS_V1(selectedProviderV1))
  /\ model # selectedModelV1
  /\ selectedModelV1' = model
  /\ selMade' = selMade \cup {"handleProviderChange"}
  /\ UNCHANGED <<selectedProvider, selectedModel, selectedProviderV1>>
  /\ UNCHANGED <<pfVars, cgVars, asmVars, mounted, dbVars, clVars, memVars>>

InitSelector ==
  /\ selectedProvider = "openai"
  /\ selectedModel = "gpt-4-turbo"
  /\ selectedProviderV1 = "gemini"
  /\ selectedModelV1 = "gemini-1.5-flash"
  /\ selMade = {}

(***************************************************************************)
(* generateCodeAgent: the load-memory and save-memory steps of the runs    *)
(* started by the events of one conversation.  Every event starts its own  *)
(* run; the function sets no concurrency limit.                            *)
(***************************************************************************)
RunIds == 1..MaxRuns

\* Array.prototype.slice(-n)
SliceLast(seq, n) ==
  IF Len(seq) > n THEN SubSeq(seq, Len(seq) - n + 1, Len(seq)) ELSE seq

InFlight == {r \in RunIds : runs[r].pc \in {"load", "steps"}}

\* an 'ai/generate-code' event for the conversation starts a run
StartRun(r) ==
  /\ runs[r].pc = "none"
  /\ \A q \in 1..(r - 1) : runs[q].pc # "none"
  /\ Cardinality(InFlight) < MaxInFlight
  /\ runs' = [runs EXCEPT ![r].pc = "load"]
  /\ UNCHANGED <<stored, saved>>
  /\ UNCHANGED <<pfVars, cgVars, asmVars, mounted, dbVars, clVars, selVars>>

\* step 'load-memory': the stored memory, or one with an empty history
LoadMemory(r) ==
  /\ runs[r].pc = "load"
  /\ runs' = [runs EXCEPT ![r].pc = "steps", ![r].history = stored]
  /\ UNCHANGED <<stored, saved>>
  /\ UNCHANGED <<pfVars, cgVars, asmVars, mounted, dbVars, clVars, selVars>>

\* the steps in between succeed; step 'save-memory': push the interaction onto the history that was
\* loaded, keep the last 10, store
SaveMemory(r) ==
  /\ runs[r].pc = "steps"
  /\ stored' = LET pushed == Append(runs[r].history, r)
               IN  IF Len(pushed) > HistoryLimit
                     THEN SliceLast(pushed, HistoryLimit)
                     ELSE pushed
  /\ saved' = Append(saved, r)
  /\ runs' = [runs EXCEPT ![r].pc = "done", ![r].history = <<>>]
  /\ UNCHANGED <<pfVars, cgVars, asmVars, mounted, dbVars, clVars, selVars>>

InitMemory ==
  /\ stored = <<>>
  /\ runs = [r \in RunIds |-> [pc |-> "none", history |-> <<>>]]
  /\ saved = <<>>

\* the other components in their initial state
InitRest ==
  /\ mounted = TRUE
  /\ InitDb
  /\ InitClient
  /\ InitSelector
  /\ InitMemory

Init == InitPF /\ InitCG /\ InitAsmIdle /\ InitRest

Next ==
  \/ InitEffect
  \/ BootResolve
  \/ BootReject
  \/ \E b \in 0..Len(Bundles) : SetBundle(b)
  \/ refreshPreview
  \/ openInNewTab
  \/ \E i \in 1..MaxTasks : MountResolve(i)
  \/ \E i \in 1..MaxTasks : MountReject(i)
  \/ \E i \in 1..MaxTasks : SpawnInstallResolve(i)
  \/ \E i \in 1..MaxTasks : SpawnInstallReject(i)
  \/ \E i \in 1..MaxTasks : InstallExitZero(i)
  \/ \E i \in 1..MaxTasks : InstallExitNonZero(i)
  \/ \E i \in 1..MaxTasks : StartSpawnResolve(i)
  \/ \E i \in 1..MaxTasks : StartSpawnReject(i)
  \/ \E i \in 1..MaxTasks : ServerReady(i)

Spec == Init /\ [][Next]_vars

(***************************************************************************)
(* Specification of CodeGenerator + PreviewFrame({isReady}).               *)
(***************************************************************************)
NextCG ==
  \/ \E c \in 1..Len(Codes) : handleGenerate(c)
  \/ GenerateResolve
  \/ CGBootResolve
  \/ CGBootReject
  \/ CGMountResolve
  \/ CGExecReject
  \/ CGSpawnInstallResolve
  \/ \E code \in {0, 1} : CGInstallExit(code)
  \/ CGSpawnStartResolve
  \/ \E g \in 1..MaxGenerations : CGServerReady(g)

SpecCG == Init /\ [][NextCG]_vars

(***************************************************************************)
(* Fairness: every sandbox promise settles (one way or the other); the     *)
(* server-ready event, the user and the parent component owe nothing.      *)
(***************************************************************************)
\* a pending sandbox promise of PreviewFrame settles
Settle ==
  \/ BootResolve \/ BootReject
  \/ \E i \in 1..MaxTasks :
       \/ MountResolve(i) \/ MountReject(i)
       \/ SpawnInstallResolve(i) \/ SpawnInstallReject(i)
       \/ InstallExitZero(i) \/ InstallExitNonZero(i)
       \/ StartSpawnResolve(i) \/ StartSpawnReject(i)

Fairness == WF_vars(InitEffect) /\ WF_vars(Settle)

FairSpec == Spec /\ Fairness

(***************************************************************************)
(* Specifications of CodeGenerator and the edge function.                  *)
(***************************************************************************)
\* the edge function alone, invoked by generateCode
NextEdge ==
  \/ generateCode
  \/ InsertResolve
  \/ InsertReject
  \/ \E p \in ProjectIds :
       \/ EdgeReadRequest(p)
       \/ EdgeEnvMissing(p)
       \/ EdgeUpdateGenerating(p)
       \/ EdgeUpdateError(p)
       \/ EdgeProviderResolve(p, Responses)
       \/ EdgeProviderThrow(p)
       \/ EdgeStoreCompleted(p)
       \/ EdgeStoreFails(p)

SpecEdge == Init /\ [][NextEdge]_vars

\* CodeGenerator against the edge function and the projects table
NextGen ==
  \/ generateCode
  \/ InsertResolve
  \/ InsertReject
  \/ InvokeResolve
  \/ InvokeReject
  \/ PollRead
  \/ PollFails
  \/ PollReturn
  \/ TimerFires
  \/ LoadReturn
  \/ \E p \in ProjectIds :
       \/ selectProject(p)
       \/ deleteProject(p)
       \/ DeleteReturn(p)
       \/ EdgeReadRequest(p)
       \/ EdgeEnvMissing(p)
       \/ EdgeUpdateGenerating(p)
       \/ EdgeUpdateError(p)
       \/ EdgeProviderResolve(p, SampleResponses)
       \/ EdgeProviderThrow(p)
       \/ EdgeStoreCompleted(p)
       \/ EdgeStoreFails(p)
       \/ BackendSetsStatus(p, "error")

SpecGen == Init /\ [][NextGen]_vars

\* generateCode and its poll loop against a backend that can show any
\* sequence of statuses, fetch errors and deleted rows
NextPoll ==
  \/ generateCode
  \/ InsertResolve
  \/ InsertReject
  \/ InvokeResolve
  \/ InvokeReject
  \/ PollRead
  \/ PollFails
  \/ PollReturn
  \/ TimerFires
  \/ \E p \in ProjectIds :
       \/ deleteProject(p)
       \/ DeleteReturn(p)
       \/ EdgeReadRequest(p)
       \/ EdgeEnvMissing(p)
       \/ EdgeUpdateGenerating(p)
       \/ EdgeUpdateError(p)
       \/ EdgeProviderResolve(p, SampleResponses)
       \/ EdgeProviderThrow(p)
       \/ EdgeStoreCompleted(p)
       \/ EdgeStoreFails(p)
       \/ \E s \in Statuses : BackendSetsStatus(p, s)

SpecPoll == Init /\ [][NextPoll]_vars

\* every request of generateCode is answered, every timer fires, and the
\* handler runs to its response
PollFairness ==
  /\ WF_vars(InsertResolve \/ InsertReject)
  /\ WF_vars(InvokeResolve \/ InvokeReject)
  /\ WF_vars(PollRead \/ PollFails)
  /\ WF_vars(PollReturn)
  /\ WF_vars(TimerFires)
  /\ \A p \in ProjectIds :
       WF_vars(\/ EdgeReadRequest(p) \/ EdgeEnvMissing(p)
               \/ EdgeUpdateGenerating(p) \/ EdgeUpdateError(p)
               \/ EdgeProviderResolve(p, SampleResponses) \/ EdgeProviderThrow(p)
               \/ EdgeStoreCompleted(p) \/ EdgeStoreFails(p))

FairSpecPoll == SpecPoll /\ PollFairness

(***************************************************************************)
(* Specifications of ModelSelector and of generateCodeAgent.               *)
(***************************************************************************)
NextSelector ==
  \/ \E provider \in providerInfo : onProviderChange(provider)
  \/ \E provider \in providerInfo : \E model \in Elems(AI_MODELS(provider)) :
       onModelChange(model)
  \/ \E provider \in ProvidersV1 : handleProviderChange(provider)
  \/ \E provider \in ProvidersV1 : \E model \in Elems(AI_MODELS_V1(provider)) :
       onModelChangeV1(model)

SpecSelector == Init /\ [][NextSelector]_vars

NextMemory ==
  \E r \in RunIds :
    \/ StartRun(r)
    \/ LoadMemory(r)
    \/ SaveMemory(r)

SpecMemory == Init /\ [][NextMemory]_vars

(***************************************************************************)
(* PreviewFrame({html, css, js}) in a view that can go away: Spec with the *)
(* unmount of the component.  No effect of the component returns a cleanup *)
(* function, so every promise and the server-ready listener stay pending;  *)
(* after Unmount the state variables hold what the callbacks hand to the   *)
(* state setters.                                                          *)
(***************************************************************************)
Unmount ==
  /\ mounted
  /\ pfBoot # "idle"
  /\ mounted' = FALSE
  /\ UNCHANGED <<pfVars, cgVars, asmVars, dbVars, clVars, selVars, memVars>>

NextUnmount ==
  \/ Next
  \/ Unmount

SpecUnmount == Init /\ [][NextUnmount]_vars

(***************************************************************************)
(* PreviewFrame({html, css, js}) fed also with the malformed bundle C.     *)
(***************************************************************************)
NextMalformed ==
  \/ Next
  \/ SetBundle(MalformedBundleId)

SpecMalformed == Init /\ [][NextMalformed]_vars

(***************************************************************************)
(* Specification of createFullHTML: the function is applied to arguments   *)
(* drawn from AsmInputs, then to its own output with the same css and js.  *)
(***************************************************************************)
InitAsm ==
  /\ InitPF
  /\ InitCG
  /\ InitRest
  /\ asmIn \in AsmInputs
  /\ asmOut = <<>>
  /\ asmOut2 = <<>>
  /\ asmPc = "input"

AssembleStep ==
  /\ asmPc = "input"
  /\ asmOut' = createFullHTML(asmIn.html, asmIn.css, asmIn.js)
  /\ asmPc' = "assembled"
  /\ UNCHANGED <<asmIn, asmOut2, pfVars, cgVars, restVars>>

ReassembleStep ==
  /\ asmPc = "assembled"
  /\ asmOut2' = createFullHTML(asmOut, asmIn.css, asmIn.js)
  /\ asmPc' = "reassembled"
  /\ UNCHANGED <<asmIn, asmOut, pfVars, cgVars, restVars>>

NextAsm ==
  \/ AssembleStep
  \/ ReassembleStep

SpecAsm == InitAsm /\ [][NextAsm]_vars

(***************************************************************************)
(* Properties of PreviewFrame({html, css, js}).                            *)
(***************************************************************************)
\* every task has returned and no spawn or server-ready is outstanding
Quiescent ==
  \A i \in 1..Len(tasks) :
    /\ tasks[i].pc \in {"done", "failed"}
    /\ tasks[i].start \in {"none", "ready", "rejected"}

\* C1 Mode monotonicity: the mode starts at Sandboxed and a step never takes
\* it from Fallback back to Sandboxed (so it changes at most once).
ModeMonotone ==
  /\ useWebContainer = TRUE
  /\ [][useWebContainer = FALSE => useWebContainer' = FALSE]_vars

\* C1 witness: demoted after a URL had been obtained, with a server of an
\* earlier task still about to announce itself
DemotedWithServerPending ==
  /\ ~useWebContainer
  /\ url = PreviewUrl
  /\ \E i \in 1..Len(tasks) : tasks[i].start = "running"

\* C2 Last-request-wins: once everything has settled and the latest request
\* for the current bundle was served, the sandbox still shows it: the mode
\* is Sandboxed, the iframe points at the URL and index.html is that bundle's.
LastRequestWins ==
  LET n == Len(tasks)
  IN  (n >= 2 /\ Quiescent /\ tasks[n].start = "ready" /\ tasks[n].bundle = bundle)
        => /\ useWebContainer
           /\ RenderTarget.src = PreviewUrl
           /\ fsIndex = Assemble(tasks[n].bundle)

\* C4 A failed mountAndServe ends in Fallback showing the assembled document
\* of the current bundle (the failed request's bundle while it is current),
\* never a preview URL or the served index.html of an earlier bundle.
FailedMountShowsFallback ==
  \A i \in 1..Len(tasks) :
    tasks[i].pc = "failed" =>
      /\ ~useWebContainer
      /\ RenderTarget = [src |-> "", srcDoc |-> Assemble(bundle)]
      /\ tasks[i].bundle = bundle => VisibleContent = Assemble(tasks[i].bundle)

\* C4 witness: a first bundle was served (URL obtained), then the request
\* of another bundle, still the current one, failed
ServedThenOtherFailed ==
  \E i, j \in 1..Len(tasks) :
    /\ i < j
    /\ tasks[i].start = "ready"
    /\ tasks[j].pc = "failed"
    /\ tasks[j].bundle # tasks[i].bundle
    /\ tasks[j].bundle = bundle
    /\ url = PreviewUrl
    /\ fsIndex = Assemble(tasks[i].bundle)

\* C5 Every executor failure, a rejected spawn of 'npm start' included, is
\* caught and leaves the mode at Fallback.
ExecFailuresFallBack ==
  \A i \in 1..Len(tasks) :
    (tasks[i].pc = "failed" \/ tasks[i].start = "rejected") => ~useWebContainer

\* C6 The wait for server-ready is bounded: a preview that is loading with
\* its server spawned eventually stops loading.
ServerReadyWaitBounded ==
  []((isLoading /\ \E i \in 1..Len(tasks) : tasks[i].start = "running")
       => <>(~isLoading))

\* C10 (as claimed) One mode's content only: Fallback shows the assembled
\* document and no URL; Sandboxed never shows the srcdoc document of a bundle.
OneModeContentOnly ==
  /\ ~useWebContainer => RenderTarget = [src |-> "", srcDoc |-> Assemble(bundle)]
  /\ (useWebContainer /\ bundle # 0) => RenderTarget.srcDoc = <<>>

\* a server-ready event has delivered a URL in this session
UrlDelivered == \E i \in 1..Len(tasks) : tasks[i].start = "ready"

\* C10 (amended) The iframe carries exactly one of src and srcDoc; Fallback
\* shows the assembled document of the current bundle and no URL; Sandboxed
\* shows the preview URL from the first server-ready event on and, until
\* then, the assembled srcdoc document of the current bundle.
RenderFollowsModeAndUrl ==
  /\ (RenderTarget.src = "") # (RenderTarget.srcDoc = <<>>)
  /\ ~useWebContainer => RenderTarget = [src |-> "", srcDoc |-> Assemble(bundle)]
  /\ (useWebContainer /\ UrlDelivered)
       => RenderTarget = [src |-> PreviewUrl, srcDoc |-> <<>>]
  /\ (useWebContainer /\ ~UrlDelivered)
       => RenderTarget = [src |-> "", srcDoc |-> Assemble(bundle)]

\* C10 witness: Sandboxed, a mount in flight for the current bundle, and the
\* iframe shows that bundle's srcdoc document
SandboxedShowsSrcDocDuringMount ==
  /\ useWebContainer
  /\ bundle # 0
  /\ \E i \in 1..Len(tasks) : tasks[i].pc = "mount" /\ tasks[i].bundle = bundle
  /\ RenderTarget.srcDoc = Assemble(bundle)

\* C11 A window is opened only in sandboxed mode with a preview URL; after
\* a demotion to the fallback the operation does nothing.
OpenOnlyWhenSandboxed ==
  lastOp = "open" => (useWebContainer /\ url # "")

\* C12 In fallback mode the refresh button is enabled, and a refresh leaves
\* the mode, the URL, the loading flag, the rendered document and the
\* session (its tasks and its file tree) as they were.
RefreshInFallbackChangesNothing ==
  /\ (~useWebContainer => ~isLoading)
  /\ [][(~useWebContainer' => ~isLoading') /\
         ((refreshPreview /\ ~useWebContainer) =>
            (/\ UNCHANGED <<useWebContainer, url, isLoading, tasks, fsIndex>>
             /\ RenderTarget' = RenderTarget))]_vars

\* a refresh was the last step, in fallback mode, with a session and a bundle
RefreshedInFallback ==
  /\ lastOp = "refresh"
  /\ ~useWebContainer
  /\ webcontainerInstance
  /\ BundleOf(bundle).html # <<>>

\* C13 A refresh while the served preview is shown (sandboxed mode, URL set;
\* the button is enabled, so loading was false) starts nothing: loading is
\* still false afterwards.
RefreshInReadyOnlyReloads ==
  (lastOp = "refresh" /\ useWebContainer /\ url # "") => ~isLoading

\* C19 While the boot has not resolved no task (mount, install, spawn) was
\* started and the file tree is untouched; a task exists only on a booted
\* instance.
BootBeforeMount ==
  /\ pfBoot # "resolved" => (tasks = <<>> /\ fsIndex = <<>>)
  /\ tasks # <<>> => webcontainerInstance

\* a bundle arrived while the boot is in flight and is held back
BundleHeldBackDuringBoot ==
  /\ pfBoot = "pending"
  /\ BundleOf(bundle).html # <<>>
  /\ tasks = <<>>

\* C20 In fallback mode every step (a bundle change, a refresh, a step of a
\* task still in flight, a server-ready event) keeps the mode, starts no
\* task, and leaves the iframe on the assembled document of the current
\* bundle.
FallbackNeverReusesSession ==
  [][~useWebContainer =>
       /\ ~useWebContainer'
       /\ Len(tasks') = Len(tasks)
       /\ RenderTarget' = [src |-> "", srcDoc |-> Assemble(bundle')]
       /\ (bundle' = bundle => RenderTarget' = RenderTarget)]_vars

\* a server-ready event has just arrived after the demotion
LateServerReadyInFallback ==
  /\ lastOp = "ready"
  /\ ~useWebContainer
  /\ url = PreviewUrl

\* a bundle with a missing html and css or js to go with it
Malformed(b) == b.html = <<>> /\ (b.css # <<>> \/ b.js # <<>>)

\* C23 A malformed bundle is never rendered as a blank document: the iframe
\* is not given a srcdoc that wraps an empty body.
MalformedNeverRenderedBlank ==
  (pfBoot # "idle" /\ Malformed(BundleOf(bundle))) =>
    ~(/\ RenderTarget.src = ""
      /\ RenderTarget.srcDoc =
           WrapFragment(<<>>, BundleOf(bundle).css, BundleOf(bundle).js))

\* C21 After the unmount no callback changes the controller state (instance,
\* url, loading flag, mode) or what the iframe is given.
NoUpdateAfterUnmount ==
  [][~mounted =>
       UNCHANGED <<webcontainerInstance, url, isLoading, useWebContainer,
                   RenderTarget>>]_vars

(***************************************************************************)
(* Properties of createFullHTML.                                           *)
(***************************************************************************)
\* createFullHTML has returned for the drawn arguments
Assembled == asmPc \in {"assembled", "reassembled"}

\* start tags of style and script blocks, with or without attributes
IsStyleStart(t) == t \in {"<style>", "<style id>"}
IsScriptStart(t) == t \in {"<script>", "<script src>"}

CountStyle(s) == Cardinality({i \in 1..Len(s) : IsStyleStart(s[i])})
CountScript(s) == Cardinality({i \in 1..Len(s) : IsScriptStart(s[i])})

\* assembling h into out added no style block to an h that had one and no
\* script block to an h that had one
NoSecondBlock(h, out) ==
  /\ CountStyle(h) > 0 => CountStyle(out) = CountStyle(h)
  /\ CountScript(h) > 0 => CountScript(out) = CountScript(h)

\* C15 No double injection: an html that already has a style (script) block,
\* with or without attributes on its start tag, has as many style (script)
\* blocks after assembly as before; the same when the output of an assembly
\* is assembled again.
NoDoubleInjection ==
  /\ Assembled => NoSecondBlock(asmIn.html, asmOut)
  /\ asmPc = "reassembled" => NoSecondBlock(asmOut, asmOut2)

\* a doctype or an html root in any letter case
IsDocumentMarker(t) == t \in {"<!DOCTYPE", "<!doctype", "<html"}

IsFragment(h) == \A i \in 1..Len(h) : ~IsDocumentMarker(h[i])

\* C16 Fragment wrapping: for an html without doctype and html root the
\* output is doctype, html, head with one style block holding css, then
\* body holding the html verbatim followed by one script block holding js.
FragmentIsWrapped ==
  (Assembled /\ IsFragment(asmIn.html)) =>
    \E p \in 1..Len(asmOut) :
      /\ SubSeq(asmOut, 1, p) =
           <<"<!DOCTYPE", "<html", "<head>", "<meta>", "<title>">>
             \o <<"<style>", "\n">> \o asmIn.css \o <<"\n", "</style>">>
             \o <<"</head>", "<body>">>
      /\ SubSeq(asmOut, p + 1, Len(asmOut)) =
           <<"\n">> \o asmIn.html
             \o <<"\n", "<script>", "\n">> \o asmIn.js \o <<"\n", "</script>">>
             \o <<"</body>", "</html>">>

\* a fragment that itself holds a style start tag was wrapped, with css and js
FragmentWithStyleWrapped ==
  /\ asmPc = "assembled"
  /\ IsFragment(asmIn.html)
  /\ Includes(asmIn.html, "<style>")
  /\ asmIn.css # <<>>
  /\ asmIn.js # <<>>
  /\ Includes(asmOut, "<body>")

\* an inline block: a style block (attributes or not), a script block
\* without src
HasInlineStyle(h) == Includes(h, "<style>") \/ Includes(h, "<style id>")
HasInlineScript(h) == Includes(h, "<script>")

\* s with block and a line break put before its first token t
InsertBefore(s, t, block) ==
  LET i == IndexOf(s, t)
  IN  SubSeq(s, 1, i - 1) \o block \o <<"\n", t>> \o SubSeq(s, i + 1, Len(s))

\* h with one style block holding c before the end of the head, else in front
WithStyleBlock(h, c) ==
  IF c = <<>> \/ HasInlineStyle(h) THEN h
  ELSE LET block == <<"<style>">> \o c \o <<"</style>">>
       IN  IF Includes(h, "</head>")
           THEN InsertBefore(h, "</head>", block)
           ELSE block \o <<"\n">> \o h

\* m (h after the style step) with one script block holding j before the end
\* of the body, else at the end
WithScriptBlock(h, m, j) ==
  IF j = <<>> \/ HasInlineScript(h) THEN m
  ELSE LET block == <<"<script>">> \o j \o <<"</script>">>
       IN  IF Includes(m, "</body>")
           THEN InsertBefore(m, "</body>", block)
           ELSE m \o <<"\n">> \o block

\* C17 Full-document injection: for an html with a doctype or an html root,
\* the output is the html with one style block holding css before the end
\* of the head (in front when there is none) unless the html has an inline
\* style block, and one script block holding js before the end of the body
\* (at the end when there is none) unless the html has an inline script
\* block; nothing else is changed.
FullDocumentInjection ==
  (Assembled /\ (Includes(asmIn.html, "<!DOCTYPE") \/ Includes(asmIn.html, "<html"))) =>
    asmOut = WithScriptBlock(asmIn.html, WithStyleBlock(asmIn.html, asmIn.css),
                             asmIn.js)

\* C27 Verbatim injection: for an html with a document marker, a head end
\* tag and a body end tag and without the literals '<style>' and '<script>',
\* the output is the html with '<style>' css '</style>' put before '</head>'
\* and '<script>' js '</script>' put before '</body>', css and js token for
\* token as given, '$' patterns included.
VerbatimInjection ==
  (/\ Assembled
   /\ Includes(asmIn.html, "<!DOCTYPE") \/ Includes(asmIn.html, "<html")
   /\ Includes(asmIn.html, "</head>") /\ Includes(asmIn.html, "</body>")
   /\ ~Includes(asmIn.html, "<style>") /\ ~Includes(asmIn.html, "<script>")
   /\ asmIn.css # <<>> /\ asmIn.js # <<>>)
  => asmOut =
       InsertBefore(
         InsertBefore(asmIn.html, "</head>",
                      <<"<style>">> \o asmIn.css \o <<"</style>">>),
         "</body>", <<"<script>">> \o asmIn.js \o <<"</script>">>)

(***************************************************************************)
(* Properties of CodeGenerator + PreviewFrame({isReady}).                  *)
(***************************************************************************)
\* C3 After a failed boot the preview is ready and shows content: it does
\* not stay on the loading placeholder.
BootFailureFallsBack ==
  cgHist.last = "bootFailed" =>
    (isPreviewReady /\ PreviewPane.shows = "iframe")

\* C7 Happy path: boot, mount and install (exit 0) succeeded and the server
\* of the latest generation announced itself: the preview is ready and the
\* iframe points at the preview URL.
HappyPathReachesReady ==
  (cgHist.last = "ready" /\ cgHist.exit = 0) =>
    (isPreviewReady /\ PreviewPane = [shows |-> "iframe", src |-> PreviewUrl])

\* the preview URL of the latest generation has been handed to the controller
ContentHandedOver == cgHist.last = "ready"

BootAtMostOnce == cgHist.boots <= 1

\* C18 spawn('npm', ['start']) is called only after the install process of
\* the same run has exited with code 0.
InstallSucceedsBeforeServer ==
  cgPc = "spawnStart" => cgHist.exit = 0


(***************************************************************************)
(* Properties of the ai-code-generator edge function.                      *)
(***************************************************************************)

\* C25: when the handler has failed after it read the project id from the
\* request (its body is consumed), the project's row has status 'error';
\* in particular it is not left at 'generating'.
FailedHandlerMarksError ==
  \A p \in ProjectIds :
    (edge[p].pc = "failed" /\ edge[p].bodyUsed /\ db[p].exists)
      => db[p].status = "error"

\* C26: a row with status 'completed' holds non-empty generated_html,
\* generated_css and generated_js, whatever the provider answered.
CompletedHasCode ==
  \A p \in ProjectIds :
    db[p].status = "completed"
      => Truthy(db[p].html) /\ Truthy(db[p].css) /\ Truthy(db[p].js)

\* a row was completed from valid JSON that lacks a field, with nothing in
\* the markdown captures to replace it
CompletedFromPartialJson ==
  \E p \in ProjectIds :
    /\ edge[p].pc = "ok"
    /\ db[p].status = "completed"
    /\ edge[p].resp.valid
    /\ Truthy(edge[p].resp.html)
    /\ ~Truthy(edge[p].resp.css)
    /\ ~Truthy(edge[p].resp.mdCss)


(***************************************************************************)
(* Properties of CodeGenerator.                                            *)
(***************************************************************************)
\* the bundle PreviewFrame is given is not empty
HasCode(project) == project.html # "" \/ project.css # "" \/ project.js # ""

\* C22: the preview is given a non-empty bundle only from a project whose
\* status is 'completed'; once generateCode has ended on status 'error' or
\* on the timeout, the failure toast was shown and nothing of that project
\* is in the preview.
StatusGating ==
  /\ HasCode(currentProject) => currentProject.status = "completed"
  /\ (gen.pc = "idle" /\ (genHist.seen = "error" \/ genHist.last = "timedOut"))
       => /\ genHist.toast = "failed"
          /\ ~(currentProject.id = genHist.lastId /\ HasCode(currentProject))

\* a generation has ended on status 'error' with its project still current
EndedOnErrorStatus ==
  /\ gen.pc = "idle"
  /\ genHist.seen = "error"
  /\ currentProject.id = genHist.lastId
  /\ currentProject.id # 0

\* what holds of a generateCode invocation at every moment: it has issued
\* at most maxAttempts selects, isGenerating is true exactly while it runs,
\* and once it has ended it reported the timeout exactly when maxAttempts
\* polls saw neither 'completed' nor 'error'
PollLoopBounded ==
  /\ genHist.polls <= maxAttempts
  /\ isGeneratingV1 <=> gen.pc # "idle"
  /\ (gen.pc = "idle" /\ genHist.last # "none")
       => ((genHist.last = "timedOut") <=> (genHist.waits = maxAttempts))

\* C24: every invocation of generateCode ends with isGenerating false after
\* at most 30 polls, and reports the timeout exactly when all 30 polls saw
\* a status that is neither 'completed' nor 'error'.
GenerateCodeTerminates ==
  /\ PollLoopBounded
  /\ [][PollLoopBounded']_vars
  /\ (isGeneratingV1 ~> ~isGeneratingV1)

\* a generation has ended on the timeout after its 30 polls
TimedOutAfterAllPolls ==
  /\ gen.pc = "idle"
  /\ ~isGeneratingV1
  /\ genHist.last = "timedOut"
  /\ genHist.polls = maxAttempts

\* C28: currentProject is null or a project whose deletion deleteProject
\* has not completed.
CurrentProjectNotDeleted == currentProject.id \notin genHist.deleted


(***************************************************************************)
(* Properties of ModelSelector and of generateCodeAgent.                   *)
(***************************************************************************)

\* C29: once a selection has been made through a ModelSelector, the
\* selected model is one of the models listed for the selected provider.
SelectedModelListed ==
  /\ "AIProvider" \in selMade => selectedModel \in Elems(AI_MODELS(selectedProvider))
  /\ "handleProviderChange" \in selMade
       => selectedModelV1 \in Elems(AI_MODELS_V1(selectedProviderV1))

\* C30: once a save-memory step has run, the stored history has at most 10
\* entries and they are the last 10 interactions saved, in their order.
StoredIsLastTen ==
  saved # <<>> =>
    /\ Len(stored) <= HistoryLimit
    /\ stored = SliceLast(saved, HistoryLimit)

=============================================================================
